---- MODULE Spec2Model ----
(***************************************************************************)
(* Live-sync core of Mission Control: the AgentActivityDashboard component *)
(* (src/src/components/AgentsSidebar.tsx, lines 308-422).                  *)
(*                                                                         *)
(* The component state (agents, tasks, events, loading, sseConnected), its *)
(* two refs (eventSourceRef, pollingIntervalRef), the closures of each run *)
(* of its two effects keyed on workspaceId, the EventSource objects, the   *)
(* interval timers and the in-flight async calls (loadData, refresh) are   *)
(* the state.  Every callback the browser can run (effect run/cleanup,     *)
(* onopen, onmessage, onerror, interval tick, fetch settlement, body       *)
(* parse settlement) is one action: JavaScript runs each callback to       *)
(* completion, and an async function yields only at its awaits.            *)
(*                                                                         *)
(* The other components are modelled the same way, each with a record      *)
(* variable and a specification of its own: WorkspacePage and the store it *)
(* writes (page, store: PageSpec), its mobile layout (layout: LayoutSpec), *)
(* DiscoverAgentsModal (modal: ModalSpec), the connect buttons of          *)
(* AgentsSidebar (sidebar: SidebarSpec) and the values the dashboard       *)
(* derives from its agents and tasks (board: BoardSpec).                   *)
(***************************************************************************)
EXTENDS Integers, FiniteSets, Sequences, TLC

\* ---- bounds of the model ------------------------------------------------
MaxEpoch == 2        \* effect runs (mounts + workspace changes) in a behaviour
MaxCalls == 2        \* async calls (loadData / refresh) started in a behaviour
MaxPageMounts == 2   \* instances of WorkspacePage mounted in a behaviour
MaxPageCalls == 4    \* async calls of WorkspacePage started in a behaviour
MaxModalOpens == 2   \* instances of DiscoverAgentsModal opened in a behaviour
MaxModalCalls == 3   \* async calls (discover / handleImport) of the modal in a behaviour
MaxAgents == 2       \* length of an agents list the dashboard is answered with
MaxTasks == 2        \* length of a tasks list the dashboard is answered with
MaxClicks == 3       \* clicks on OpenClaw connect buttons of the sidebar in a behaviour
MaxLayoutMounts == 3 \* instances of WorkspacePage whose mobile layout is followed

\* ---- values -------------------------------------------------------------
NULL == 0
WorkspaceIds == {"A", "B"}
NoWorkspace == "-"
FirstWorkspace == "A"
Order == <<"agents", "tasks", "events">>
Collections == {Order[i] : i \in 1..3}
Epochs == 1..MaxEpoch
\* the calls of loadData / refresh, numbered in the order they are started
Rids == 1..MaxCalls
\* event.data of a stream message, as a sequence of characters
MessageData == {<<":">>, <<":", "k">>, <<"u">>, <<>>}
\* the initial value of a collection, useState([]): fetched by nobody
Empty == [rid |-> 0, scope |-> 0]
\* pollingIntervalRef.current === null
NoInterval == [scope |-> 0, tag |-> "none"]

VARIABLES
  alive,               \* the component instance is mounted
  instStart,           \* first effect run of the mounted instance
  epoch,               \* the current run of the effects keyed on workspaceId
  closureWs,           \* closureWs[e]: workspaceId captured by effect run e
  agents, tasks, events, loading, sseConnected,    \* useState cells
  eventSourceRef, pollingIntervalRef,              \* useRef cells
  mounted,             \* mounted[e]: the `mounted` flag of effect run e
  readyState,          \* readyState[e]: EventSource created by effect run e
  intervals,           \* active setInterval timers
  calls,               \* in-flight loadData / refresh calls
  started,             \* number of loadData / refresh calls started so far; a callback
                       \* that starts one runs only while started < MaxCalls
  newest,              \* the call whose three fetches were the last to complete, if all
                       \* three succeeded and the call is one that stores them; else 0
  page,                \* the WorkspacePage component: its state cells, the timers and the
                       \* async calls of its effects (src/unnamed/part_002)
  store,               \* the useMissionControl store the page and its children share
  modal,               \* the DiscoverAgentsModal component: its state cells and the async
                       \* calls of its handlers (src/unnamed/part_001)
  board,               \* the contents of the dashboard's agents and tasks cells and the
                       \* values its render derives from them (AgentsSidebar.tsx 424-470)
  sidebar,             \* the AgentsSidebar component: connectingAgentId and the requests
                       \* of handleConnectToOpenClaw in flight (AgentsSidebar.tsx 18-99)
  layout               \* the mobile layout of WorkspacePage: the orientation of the
                       \* device, isPortrait, mobileTab and the effect keyed on them
                       \* (src/unnamed/part_002 27-73, 222-285)

vars == <<alive, instStart, epoch, closureWs, agents, tasks, events, loading,
          sseConnected, eventSourceRef, pollingIntervalRef, mounted, readyState,
          intervals, calls, started, newest, page, store, modal, board,
          sidebar, layout>>

\* what the dashboard's callbacks leave alone
others == <<page, store, modal, board, sidebar, layout>>

\* the cells, refs, timers and calls of AgentActivityDashboard
dashboard == <<alive, instStart, epoch, closureWs, agents, tasks, events, loading,
               sseConnected, eventSourceRef, pollingIntervalRef, mounted, readyState,
               intervals, calls, started, newest>>

\* const workspaceId = workspace?.id, as seen by the current render
workspaceId == IF epoch = 0 THEN NoWorkspace ELSE closureWs[epoch]

\* ---- pure helpers ---------------------------------------------------------

\* event.data.startsWith(':')
StartsWithColon(d) == Len(d) >= 1 /\ d[1] = ":"

\* the workspace a fetch of collection c issued by effect run e is scoped to
FetchScope(c, e) == IF c = "events" \/ e = 0 THEN NoWorkspace ELSE closureWs[e]

\* a state setter called on an instance that was unmounted is a no-op
Applies(scope) == alive /\ scope >= instStart

NewRid == started + 1

\* the call record of loadData() / refresh() right after its three fetches were issued:
\* it awaits Promise.all; `ok` will hold the responses with res.ok that are still to be
\* parsed and stored
NewCall(kind, scope) ==
  [kind |-> kind, scope |-> scope, rid |-> NewRid, pc |-> "all", ok |-> {}]

Pos(c) == CHOOSE i \in 1..3 : Order[i] = c

\* the next `if (xRes.ok) setX(await xRes.json())` that awaits: the first ok response
\* in the order agents, tasks, events
NextOk(ok) == CHOOSE c \in ok : \A d \in ok : Pos(c) <= Pos(d)

\* startPolling without its `if (pollingIntervalRef.current) return` guard
startPolling_NoGuard(ref, active, iv) == [ref |-> iv, active |-> active \cup {iv}]

startPolling(ref, active, iv) ==
  IF ref # NoInterval THEN [ref |-> ref, active |-> active]
  ELSE [ref |-> iv, active |-> active \cup {iv}]

\* stopPolling that forgets the clearInterval and only resets the ref
stopPolling_NoClear(ref, active) == [ref |-> NoInterval, active |-> active]

\* stopPolling that does nothing
stopPolling_Noop(ref, active) == [ref |-> ref, active |-> active]

stopPolling(ref, active) ==
  IF ref # NoInterval THEN [ref |-> NoInterval, active |-> active \ {ref}]
  ELSE [ref |-> ref, active |-> active]

\* a cleanup that does not close the EventSource
closeSource_Noop(ref, rs) == rs

\* eventSourceRef.current?.close()
closeSource(ref, rs) == IF ref # NULL THEN [rs EXCEPT ![ref] = "closed"] ELSE rs

\* ---- values of the workspace page -----------------------------------------------
\* the lists the server can answer with (a task is its id and its updated_at)
AgentLists == {<<>>, <<"a1">>}
TaskLists ==
  {<<>>, <<[id |-> "t1", updated_at |-> 1]>>, <<[id |-> "t1", updated_at |-> 2]>>,
   <<[id |-> "t1", updated_at |-> 1], [id |-> "t2", updated_at |-> 1]>>,
   <<[id |-> "t1", updated_at |-> 1], [id |-> "t1", updated_at |-> 1]>>}
EventLists == {<<>>, <<"e1">>}
\* the three setInterval timers of the data effect
PollKinds == {"eventPoll", "taskPoll", "connectionCheck"}
\* the two callbacks that ask /api/openclaw/status
StatusKinds == {"checkOpenClaw", "connectionCheck"}

\* the store before anything was loaded
StoreInit ==
  [agents |-> <<>>, tasks |-> <<>>, events |-> <<>>, isOnline |-> FALSE, isLoading |-> TRUE]

\* no WorkspacePage was rendered yet
PageInit ==
  [alive |-> FALSE, inst |-> 0, workspace |-> NoWorkspace, notFound |-> FALSE,
   run |-> 0, live |-> FALSE, timers |-> {}, calls |-> {}, issued |-> 0]

\* ---- values of the discover modal ----------------------------------------------
\* the agents of the gateway, in the order the server lists them
GatewayOrder == <<"g1", "g2">>
GatewayIds == {GatewayOrder[i] : i \in 1..2}
\* importResult === null
NoResult == [imported |-> -1, skipped |-> -1]

\* the ids of S as a list, in the order of the list `order`
Listed(order, S) == SelectSeq(order, LAMBDA id : id \in S)

\* the lists /api/agents/discover can answer with
DiscoverLists ==
  {[i \in 1..Len(Listed(GatewayOrder, S)) |->
      [id |-> Listed(GatewayOrder, S)[i], already_imported |-> f[Listed(GatewayOrder, S)[i]]]] :
     S \in SUBSET GatewayIds, f \in [GatewayIds -> BOOLEAN]}

\* the modal is not rendered
ModalInit ==
  [open |-> FALSE, inst |-> 0, loading |-> TRUE, error |-> FALSE, agents |-> <<>>,
   selectedIds |-> {}, importing |-> FALSE, importResult |-> NoResult,
   calls |-> {}, issued |-> 0]

\* ---- values of the dashboard's metrics ------------------------------------------
\* task.assigned_agent_id of a task nobody is assigned to (null)
NoAgent == ""
\* the agents a list can hold, and the assignees a task can have: a9 is in no list
AgentIds == {"a1", "a2"}
AssigneeIds == {NoAgent, "a1", "a9"}
\* agent.status, standby being handled like working by blockedAgentIds
AgentStatuses == {"working", "offline"}
TaskStatuses == {"in_progress", "testing", "review", "done"}

SeqsUpTo(S, n) == UNION {[1..k -> S] : k \in 0..n}

\* the bodies /api/agents and /api/tasks can answer with
AgentBodies == SeqsUpTo([id : AgentIds, status : AgentStatuses], MaxAgents)
TaskBodies == SeqsUpTo([assigned_agent_id : AssigneeIds, status : TaskStatuses], MaxTasks)

\* useState([]) of agents and tasks, and the values memoised by the first render
BoardInit ==
  [agentsRes |-> <<>>, tasksRes |-> <<>>, agents |-> <<>>, tasks |-> <<>>, blocked |-> {}]

\* ---- values of the agents sidebar -------------------------------------------------
\* the agents with is_master, whose rows have a connect button
MasterIds == {"m1", "m2"}

\* useState<string | null>(null) of connectingAgentId (NoAgent: null); no request
SidebarInit == [connectingAgentId |-> NoAgent, requests |-> {}, issued |-> 0]

\* ---- values of the mobile layout -------------------------------------------------
\* type MobileTab
MobileTabs == {"queue", "agents", "feed", "settings"}

\* the tab buttons that are rendered: the bottom bar in portrait, the three buttons of
\* the right column in landscape
TabButtons(isPortrait) == IF isPortrait THEN MobileTabs ELSE {"agents", "feed", "settings"}

\* no page is rendered, the device is held upright; useState('queue'), useState(true)
LayoutInit ==
  [alive |-> FALSE, mounts |-> 0, media |-> TRUE, isPortrait |-> TRUE,
   mobileTab |-> "queue", pending |-> FALSE]

\* ---- state after construction ------------------------------------------------
\* everything but the bodies the server answers the dashboard with
Constructed ==
  /\ alive = FALSE /\ instStart = 0 /\ epoch = 0
  /\ closureWs = [e \in Epochs |-> NoWorkspace]
  /\ agents = Empty /\ tasks = Empty /\ events = Empty
  /\ loading = TRUE /\ sseConnected = FALSE
  /\ eventSourceRef = NULL /\ pollingIntervalRef = NoInterval
  /\ mounted = [e \in Epochs |-> FALSE]
  /\ readyState = [e \in Epochs |-> "none"]
  /\ intervals = {}
  /\ calls = {}
  /\ started = 0
  /\ newest = 0
  /\ page = PageInit
  /\ store = StoreInit
  /\ modal = ModalInit
  /\ sidebar = SidebarInit
  /\ layout = LayoutInit

Init == Constructed /\ board = BoardInit

\* ---- effects ---------------------------------------------------------------

\* both effects keyed on workspaceId run for effect run e: loadData(); connectSSE(); startPolling()
EffectRun(e, ws, ref0, active0, rs0, mounted0) ==
  LET p == startPolling(ref0, active0, [scope |-> e, tag |-> "effect"]) IN
  /\ epoch' = e
  /\ closureWs' = [closureWs EXCEPT ![e] = ws]
  /\ mounted' = [mounted0 EXCEPT ![e] = TRUE]
  /\ calls' = calls \cup {NewCall("load", e)}
  /\ started' = started + 1
  /\ readyState' = [rs0 EXCEPT ![e] = "connecting"]
  /\ eventSourceRef' = e
  /\ pollingIntervalRef' = p.ref
  /\ intervals' = p.active

\* the cleanups of both effects: mounted = false; eventSourceRef.current?.close(); stopPolling()
CleanupSources == closeSource(eventSourceRef, readyState)
\* a cleanup that does not call stopPolling
CleanupPolling_Skip == [ref |-> pollingIntervalRef, active |-> intervals]

CleanupPolling == stopPolling(pollingIntervalRef, intervals)
CleanupMounted == IF epoch = 0 THEN mounted ELSE [mounted EXCEPT ![epoch] = FALSE]

\* a fresh instance is rendered and its effects run (workspace ids are interchangeable:
\* the one of the very first mount is called FirstWorkspace)
Mount(ws) ==
  /\ ~alive /\ epoch < MaxEpoch /\ started < MaxCalls
  /\ epoch = 0 => ws = FirstWorkspace
  /\ alive' = TRUE /\ instStart' = epoch + 1
  /\ agents' = Empty /\ tasks' = Empty /\ events' = Empty
  /\ loading' = TRUE /\ sseConnected' = FALSE
  /\ EffectRun(epoch + 1, ws, NoInterval, intervals, readyState, mounted)
  /\ newest' = 0
  /\ UNCHANGED others

\* the workspace prop changes: cleanups of the old effect run, then the new effect run
WorkspaceChange(ws) ==
  /\ alive /\ ws # workspaceId /\ epoch < MaxEpoch /\ started < MaxCalls
  /\ EffectRun(epoch + 1, ws, CleanupPolling.ref, CleanupPolling.active, CleanupSources, CleanupMounted)
  /\ UNCHANGED <<alive, instStart, agents, tasks, events, loading, sseConnected, newest>>
  /\ UNCHANGED others

Unmount ==
  /\ alive
  /\ alive' = FALSE
  /\ mounted' = CleanupMounted
  /\ readyState' = CleanupSources
  /\ pollingIntervalRef' = CleanupPolling.ref
  /\ intervals' = CleanupPolling.active
  /\ UNCHANGED <<instStart, epoch, closureWs, agents, tasks, events, loading, sseConnected,
                 eventSourceRef, calls, started, newest>>
  /\ UNCHANGED others

\* ---- EventSource handlers of the source created by effect run s ----------------
\* An EventSource fires open only while connecting, message only while open, error
\* only while connecting or open, and nothing once close() was called on it.

\* an open handler that only sets the flag
onopen_NoStop(s) ==
  /\ readyState[s] = "connecting"
  /\ readyState' = [readyState EXCEPT ![s] = "open"]
  /\ sseConnected' = IF Applies(s) THEN TRUE ELSE sseConnected
  /\ UNCHANGED <<alive, instStart, epoch, closureWs, agents, tasks, events, loading,
                 eventSourceRef, pollingIntervalRef, intervals, mounted, calls, started,
                 newest>>
  /\ UNCHANGED others

onopen(s) ==
  LET p == stopPolling(pollingIntervalRef, intervals) IN
  /\ readyState[s] = "connecting"
  /\ readyState' = [readyState EXCEPT ![s] = "open"]
  /\ sseConnected' = IF Applies(s) THEN TRUE ELSE sseConnected
  /\ pollingIntervalRef' = p.ref
  /\ intervals' = p.active
  /\ UNCHANGED <<alive, instStart, epoch, closureWs, agents, tasks, events, loading,
                 eventSourceRef, mounted, calls, started, newest>>
  /\ UNCHANGED others

\* a message handler whose refresh supersedes the calls still in flight
onmessage_Latest(s, d) ==
  /\ readyState[s] = "open"
  /\ IF StartsWithColon(d)
     THEN UNCHANGED <<calls, started>>
     ELSE /\ started < MaxCalls
          /\ calls' = {NewCall("refresh", s)}
          /\ started' = started + 1
  /\ UNCHANGED <<alive, instStart, epoch, closureWs, agents, tasks, events, loading,
                 sseConnected, eventSourceRef, pollingIntervalRef, mounted, readyState,
                 intervals, newest>>
  /\ UNCHANGED others

\* a message handler without the keep-alive test
onmessage_NoSentinel(s, d) ==
  /\ readyState[s] = "open"
  /\ started < MaxCalls
  /\ calls' = calls \cup {NewCall("refresh", s)}
  /\ started' = started + 1
  /\ UNCHANGED <<alive, instStart, epoch, closureWs, agents, tasks, events, loading,
                 sseConnected, eventSourceRef, pollingIntervalRef, mounted, readyState,
                 intervals, newest>>
  /\ UNCHANGED others

onmessage(s, d) ==
  /\ readyState[s] = "open"
  /\ IF StartsWithColon(d)
     THEN UNCHANGED <<calls, started>>
     ELSE /\ started < MaxCalls
          /\ calls' = calls \cup {NewCall("refresh", s)}
          /\ started' = started + 1
  /\ UNCHANGED <<alive, instStart, epoch, closureWs, agents, tasks, events, loading,
                 sseConnected, eventSourceRef, pollingIntervalRef, mounted, readyState,
                 intervals, newest>>
  /\ UNCHANGED others

\* an error handler without source.close(): the browser reconnects the EventSource
onerror_NoClose(s) ==
  LET p == startPolling(pollingIntervalRef, intervals, [scope |-> s, tag |-> "onerror"]) IN
  /\ readyState[s] \in {"connecting", "open"}
  /\ sseConnected' = IF Applies(s) THEN FALSE ELSE sseConnected
  /\ readyState' = [readyState EXCEPT ![s] = "connecting"]
  /\ eventSourceRef' = NULL
  /\ pollingIntervalRef' = p.ref
  /\ intervals' = p.active
  /\ UNCHANGED <<alive, instStart, epoch, closureWs, agents, tasks, events, loading,
                 mounted, calls, started, newest>>
  /\ UNCHANGED others

\* an error handler that closes the source without falling back to polling
onerror_NoPolling(s) ==
  /\ readyState[s] \in {"connecting", "open"}
  /\ sseConnected' = IF Applies(s) THEN FALSE ELSE sseConnected
  /\ readyState' = [readyState EXCEPT ![s] = "closed"]
  /\ eventSourceRef' = NULL
  /\ UNCHANGED <<alive, instStart, epoch, closureWs, agents, tasks, events, loading,
                 pollingIntervalRef, intervals, mounted, calls, started, newest>>
  /\ UNCHANGED others

onerror(s) ==
  LET p == startPolling(pollingIntervalRef, intervals, [scope |-> s, tag |-> "onerror"]) IN
  /\ readyState[s] \in {"connecting", "open"}
  /\ sseConnected' = IF Applies(s) THEN FALSE ELSE sseConnected
  /\ readyState' = [readyState EXCEPT ![s] = "closed"]
  /\ eventSourceRef' = NULL
  /\ pollingIntervalRef' = p.ref
  /\ intervals' = p.active
  /\ UNCHANGED <<alive, instStart, epoch, closureWs, agents, tasks, events, loading,
                 mounted, calls, started, newest>>
  /\ UNCHANGED others

\* an active setInterval(refresh, 20000) fires
Tick(iv) ==
  /\ iv \in intervals
  /\ started < MaxCalls
  /\ calls' = calls \cup {NewCall("refresh", iv.scope)}
  /\ started' = started + 1
  /\ UNCHANGED <<alive, instStart, epoch, closureWs, agents, tasks, events, loading,
                 sseConnected, eventSourceRef, pollingIntervalRef, mounted, readyState,
                 intervals, newest>>
  /\ UNCHANGED others

\* ---- the async bodies of loadData / refresh ---------------------------------------

\* setAgents / setTasks / setEvents of call c with the parsed body of its response
Payload(call, c) ==
  [rid |-> call.rid, scope |-> call.scope]

SetCollection(call, c) ==
  /\ agents' = IF c = "agents" /\ Applies(call.scope) THEN Payload(call, c) ELSE agents
  /\ tasks' = IF c = "tasks" /\ Applies(call.scope) THEN Payload(call, c) ELSE tasks
  /\ events' = IF c = "events" /\ Applies(call.scope) THEN Payload(call, c) ELSE events

\* a loadData without its finally block
FinallyLoading_None(call) == loading

\* loadData's `finally { if (mounted) setLoading(false) }`; refresh has no finally
FinallyLoading(call) ==
  IF call.kind = "load" /\ mounted[call.scope] /\ Applies(call.scope) THEN FALSE ELSE loading

\* loadData's `if (!mounted) return;` after the Promise.all; refresh has no such guard
ReturnsEarly(call) == call.kind = "load" /\ ~mounted[call.scope]

\* the call after the code ran up to its next await, `ok` being the responses left to
\* parse: it is suspended at the json() of the first of them, or it has returned
Continue(call, ok) ==
  IF ok = {}
  THEN calls \ {call}
  ELSE (calls \ {call}) \cup {[call EXCEPT !.ok = ok, !.pc = NextOk(ok)]}

\* the outcomes of `await Promise.all` over the three fetches: it resolves with three
\* responses, each with a success status or with another one, or it rejects. A rejected
\* fetch rejects it whatever the other two do and the code then sees no response, so
\* the rejection is one outcome
Outcomes == [Collections -> {"ok", "bad"}] \cup {[c \in Collections |-> "reject"]}

OkOf(out) == {c \in Collections : out[c] = "ok"}

\* a catch block that resets the three lists when the Promise.all rejects
PromiseAllSettles_ClearOnError(call, out) ==
  LET rejected == \E c \in Collections : out[c] = "reject"
      cleared(old) == IF rejected /\ Applies(call.scope) THEN Empty ELSE old IN
  /\ call \in calls /\ call.pc = "all"
  /\ newest' = IF ~Applies(call.scope) \/ ReturnsEarly(call) THEN newest
               ELSE IF OkOf(out) = Collections THEN call.rid ELSE 0
  /\ IF rejected \/ ReturnsEarly(call)
     THEN /\ calls' = calls \ {call}
          /\ loading' = FinallyLoading(call)
     ELSE /\ calls' = Continue(call, OkOf(out))
          /\ loading' = IF OkOf(out) = {} THEN FinallyLoading(call) ELSE loading
  /\ agents' = cleared(agents) /\ tasks' = cleared(tasks) /\ events' = cleared(events)
  /\ UNCHANGED <<alive, instStart, epoch, closureWs,
                 sseConnected, eventSourceRef, pollingIntervalRef, mounted, readyState,
                 intervals, started>>
  /\ UNCHANGED others

\* the calls in flight after the Promise.all of `call` settled with outcomes `out`: a
\* rejection jumps to the catch, loadData of a torn-down run returns, and otherwise the
\* call goes on with the responses that have res.ok
AllSettled(call, out) ==
  IF (\E c \in Collections : out[c] = "reject") \/ ReturnsEarly(call)
  THEN calls \ {call}
  ELSE Continue(call, OkOf(out))

\* `await Promise.all([fetch, fetch, fetch])` of a call settles: it rejects when one of
\* the fetches rejects (catch, finally) and resolves with the three responses otherwise
PromiseAllSettles(call, out) ==
  /\ call \in calls /\ call.pc = "all"
  /\ newest' = IF ~Applies(call.scope) \/ ReturnsEarly(call) THEN newest
               ELSE IF OkOf(out) = Collections THEN call.rid ELSE 0
  /\ calls' = AllSettled(call, out)
  /\ loading' = IF \A next \in AllSettled(call, out) : next.rid # call.rid
                THEN FinallyLoading(call) ELSE loading
  /\ UNCHANGED <<alive, instStart, epoch, closureWs, agents, tasks, events,
                 sseConnected, eventSourceRef, pollingIntervalRef, mounted, readyState,
                 intervals, started>>
  /\ UNCHANGED others

\* the `await xRes.json()` the call is suspended at settles: with the parsed body, which
\* is stored, or with a rejection (catch, finally)
JsonSettles(call, outcome) ==
  /\ call \in calls /\ call.pc \in Collections
  /\ IF outcome = "parsed"
     THEN /\ SetCollection(call, call.pc)
          /\ calls' = Continue(call, call.ok \ {call.pc})
          /\ loading' = IF call.ok = {call.pc} THEN FinallyLoading(call) ELSE loading
     ELSE /\ calls' = calls \ {call}
          /\ loading' = FinallyLoading(call)
          /\ UNCHANGED <<agents, tasks, events>>
  /\ newest' = IF outcome # "parsed" /\ newest = call.rid THEN 0 ELSE newest
  /\ UNCHANGED <<alive, instStart, epoch, closureWs,
                 sseConnected, eventSourceRef, pollingIntervalRef, mounted, readyState,
                 intervals, started>>
  /\ UNCHANGED others

\* ---- WorkspacePage: effects --------------------------------------------------------

\* a state setter of the page called for an instance that was unmounted is a no-op
PageApplies(call) == page.alive /\ call.inst = page.inst

\* the n-th async call started by the running callback: it awaits its fetch
PageCall(kind, n, inst, run, ws) ==
  [id |-> page.issued + n, kind |-> kind, inst |-> inst, run |-> run, ws |-> ws,
   pc |-> "fetch", ok |-> {}, overdue |-> FALSE]

\* the cleanup of the data effect: clearInterval of eventPoll, connectionCheck, taskPoll
EffectCleanup(p) ==
  IF p.live THEN {t \in p.timers : ~(t.run = p.run /\ t.kind \in PollKinds)} ELSE p.timers

\* setWorkspace(data) and the data effect keyed on workspace: the cleanup of the previous
\* run, then loadData(); checkOpenClaw() (which arms its abort timeout); three setInterval
DataEffect(p, ws) ==
  LET r == p.run + 1 IN
  [p EXCEPT !.workspace = ws, !.run = r, !.live = TRUE,
            !.timers = EffectCleanup(p) \cup
                         {[run |-> r, kind |-> k] : k \in PollKinds \cup {"abort"}},
            !.calls = @ \cup {PageCall("loadData", 1, p.inst, r, ws),
                              PageCall("checkOpenClaw", 2, p.inst, r, ws)},
            !.issued = @ + 2]

\* loadWorkspace() is called by the effect keyed on slug
LoadWorkspace(p, ws) ==
  [p EXCEPT !.calls = @ \cup {PageCall("loadWorkspace", 1, p.inst, 0, ws)},
            !.issued = @ + 1]

\* the page is rendered for slug ws: fresh state cells, the effect keyed on slug runs (the
\* data effect returns at `if (!workspace) return`)
PageMount(ws) ==
  /\ ~page.alive /\ page.inst < MaxPageMounts /\ page.issued < MaxPageCalls
  /\ page' = LoadWorkspace([page EXCEPT !.alive = TRUE, !.inst = @ + 1,
                                         !.workspace = NoWorkspace, !.notFound = FALSE,
                                         !.live = FALSE], ws)
  /\ UNCHANGED <<dashboard, board, sidebar, layout, store, modal>>

\* the slug of the route changes
SlugChange(ws) ==
  /\ page.alive /\ page.issued < MaxPageCalls
  /\ page' = LoadWorkspace(page, ws)
  /\ UNCHANGED <<dashboard, board, sidebar, layout, store, modal>>

PageUnmount ==
  /\ page.alive
  /\ page' = [page EXCEPT !.alive = FALSE, !.live = FALSE, !.timers = EffectCleanup(page)]
  /\ UNCHANGED <<dashboard, board, sidebar, layout, store, modal>>

\* ---- WorkspacePage: loadWorkspace ------------------------------------------------------

Without(call) == [page EXCEPT !.calls = @ \ {call}]
At(call, pc) == [page EXCEPT !.calls = (@ \ {call}) \cup {[call EXCEPT !.pc = pc]}]

\* setNotFound(true); setIsLoading(false)
NotFound(call) ==
  /\ page' = IF PageApplies(call) THEN [Without(call) EXCEPT !.notFound = TRUE]
             ELSE Without(call)
  /\ store' = [store EXCEPT !.isLoading = FALSE]

\* `await fetch(/api/workspaces/slug)` settles
WorkspaceResponds(call, outcome) ==
  /\ call \in page.calls /\ call.kind = "loadWorkspace" /\ call.pc = "fetch"
  /\ CASE outcome = "ok" -> page' = At(call, "json") /\ UNCHANGED store
       [] outcome = "404" -> NotFound(call)
       [] outcome = "500" -> page' = Without(call) /\ UNCHANGED store
       [] outcome = "reject" -> NotFound(call)
  /\ UNCHANGED <<dashboard, board, sidebar, layout, modal>>

\* `await res.json()` of loadWorkspace settles: setWorkspace(data), and the data effect runs
WorkspaceParsed(call, outcome) ==
  /\ call \in page.calls /\ call.kind = "loadWorkspace" /\ call.pc = "json"
  /\ IF outcome = "parsed"
     THEN /\ page.issued + 2 <= MaxPageCalls
          /\ page' = IF PageApplies(call) THEN DataEffect(Without(call), call.ws)
                     ELSE Without(call)
          /\ UNCHANGED store
     ELSE NotFound(call)
  /\ UNCHANGED <<dashboard, board, sidebar, layout, modal>>

\* ---- WorkspacePage: loadData ---------------------------------------------------------

\* `await Promise.all` of loadData settles; finally { setIsLoading(false) }
PageLoadSettles(call, out) ==
  LET rejected == \E c \in Collections : out[c] = "reject"
      ok == OkOf(out) IN
  /\ call \in page.calls /\ call.kind = "loadData" /\ call.pc = "fetch"
  /\ IF rejected \/ ok = {}
     THEN /\ page' = Without(call)
          /\ store' = [store EXCEPT !.isLoading = FALSE]
     ELSE /\ page' = [page EXCEPT !.calls = (@ \ {call}) \cup
                                     {[call EXCEPT !.pc = NextOk(ok), !.ok = ok]}]
          /\ UNCHANGED store
  /\ UNCHANGED <<dashboard, board, sidebar, layout, modal>>

\* setAgents / setTasks / setEvents of the store
StoreSet(c, list) ==
  [store EXCEPT !.agents = IF c = "agents" THEN list ELSE @,
                !.tasks = IF c = "tasks" THEN list ELSE @,
                !.events = IF c = "events" THEN list ELSE @]

ListsOf(c) == IF c = "agents" THEN AgentLists ELSE IF c = "tasks" THEN TaskLists ELSE EventLists

\* the `await xRes.json()` loadData is suspended at settles
PageLoadParsed(call, outcome, list) ==
  LET rest == call.ok \ {call.pc} IN
  /\ call \in page.calls /\ call.kind = "loadData" /\ call.pc \in Collections
  /\ list \in ListsOf(call.pc) /\ (outcome # "parsed" => list = <<>>)
  /\ IF outcome = "parsed" /\ rest # {}
     THEN /\ page' = [page EXCEPT !.calls = (@ \ {call}) \cup
                                     {[call EXCEPT !.pc = NextOk(rest), !.ok = rest]}]
          /\ store' = StoreSet(call.pc, list)
     ELSE /\ page' = Without(call)
          /\ store' = [(IF outcome = "parsed" THEN StoreSet(call.pc, list) ELSE store)
                         EXCEPT !.isLoading = FALSE]
  /\ UNCHANGED <<dashboard, board, sidebar, layout, modal>>

\* ---- WorkspacePage: checkOpenClaw, the three intervals --------------------------------

\* the 5 s timeout of checkOpenClaw, armed at line 107
AbortTimer(call) == [run |-> call.run, kind |-> "abort"]

\* setIsOnline(v)
SetIsOnline(v) == [store EXCEPT !.isOnline = v]

\* `await fetch('/api/openclaw/status')` of checkOpenClaw or of a connectionCheck callback
\* settles; checkOpenClaw then runs clearTimeout(timeoutId), which a rejection skips
StatusResponds(call, outcome) ==
  LET cleared == IF call.kind = "checkOpenClaw" /\ outcome # "reject"
                 THEN page.timers \ {AbortTimer(call)} ELSE page.timers IN
  /\ call \in page.calls /\ call.kind \in StatusKinds /\ call.pc = "fetch"
  /\ page' = [(IF outcome = "ok" THEN At(call, "json") ELSE Without(call))
                EXCEPT !.timers = cleared]
  /\ store' = IF outcome = "reject" THEN SetIsOnline(FALSE) ELSE store
  /\ UNCHANGED <<dashboard, board, sidebar, layout, modal>>

\* `await res.json()` of a status check settles: setIsOnline(status.connected), or the catch
StatusParsed(call, outcome) ==
  /\ call \in page.calls /\ call.kind \in StatusKinds /\ call.pc = "json"
  /\ page' = Without(call)
  /\ store' = SetIsOnline(outcome = "connected")
  /\ UNCHANGED <<dashboard, board, sidebar, layout, modal>>

\* the timeout of checkOpenClaw fires: controller.abort() rejects the fetch if it is
\* still pending (catch: setIsOnline(false)) and is a no-op otherwise
AbortFires(t) ==
  LET aborted == {call \in page.calls :
                    call.kind = "checkOpenClaw" /\ call.run = t.run /\ call.pc = "fetch"} IN
  /\ t \in page.timers /\ t.kind = "abort"
  /\ page' = [page EXCEPT !.timers = @ \ {t}, !.calls = @ \ aborted]
  /\ store' = IF aborted # {} THEN SetIsOnline(FALSE) ELSE store
  /\ UNCHANGED <<dashboard, board, sidebar, layout, modal>>

\* one of the three intervals fires: its async callback starts with a fetch
IntervalFires(t) ==
  /\ t \in page.timers /\ t.kind \in PollKinds
  /\ page.issued < MaxPageCalls
  /\ page' = [page EXCEPT !.calls = @ \cup {PageCall(t.kind, 1, page.inst, t.run, page.workspace)},
                          !.issued = @ + 1]
  /\ UNCHANGED <<dashboard, board, sidebar, layout, store, modal>>

\* `await fetch(...)` of an eventPoll or taskPoll callback settles
PollResponds(call, outcome) ==
  /\ call \in page.calls /\ call.kind \in {"eventPoll", "taskPoll"} /\ call.pc = "fetch"
  /\ page' = IF outcome = "ok" THEN At(call, "json") ELSE Without(call)
  /\ UNCHANGED <<dashboard, board, sidebar, layout, store, modal>>

Min(S) == CHOOSE i \in S : \A j \in S : i <= j

\* currentTasks.find((ct) => ct.id === t.id) is absent or has another updated_at
Differs(t, currentTasks) ==
  LET found == {j \in 1..Len(currentTasks) : currentTasks[j].id = t.id} IN
  found = {} \/ currentTasks[Min(found)].updated_at # t.updated_at

\* hasChanges of taskPoll
HasChanges(newTasks, currentTasks) ==
  \/ Len(newTasks) # Len(currentTasks)
  \/ \E i \in 1..Len(newTasks) : Differs(newTasks[i], currentTasks)

\* the collection a poll callback asks for
Polled(call) == IF call.kind = "eventPoll" THEN "events" ELSE "tasks"

\* `await res.json()` of an eventPoll or taskPoll callback settles
PollParsed(call, outcome, list) ==
  /\ call \in page.calls /\ call.kind \in {"eventPoll", "taskPoll"} /\ call.pc = "json"
  /\ list \in ListsOf(Polled(call))
  /\ outcome # "parsed" => list = <<>>
  /\ page' = Without(call)
  /\ store' = IF outcome # "parsed" THEN store
              ELSE IF call.kind = "eventPoll" \/ HasChanges(list, store.tasks)
                   THEN StoreSet(Polled(call), list)
              ELSE store
  /\ UNCHANGED <<dashboard, board, sidebar, layout, modal>>

\* five seconds have passed since a status check asked the endpoint, and the endpoint
\* has not answered; while the timeout of checkOpenClaw is armed, it fires first
Overdue(call) ==
  /\ call \in page.calls /\ call.kind \in StatusKinds /\ call.pc = "fetch" /\ ~call.overdue
  /\ ~(call.kind = "checkOpenClaw" /\ AbortTimer(call) \in page.timers)
  /\ page' = [page EXCEPT !.calls = (@ \ {call}) \cup {[call EXCEPT !.overdue = TRUE]}]
  /\ UNCHANGED <<dashboard, board, sidebar, layout, store, modal>>

\* ---- DiscoverAgentsModal ---------------------------------------------------------------

\* a state setter of the modal called for an instance that was closed is a no-op
ModalApplies(call) == modal.open /\ call.inst = modal.inst

\* an async call of the modal, suspended at its first fetch; req: agentsToImport
ModalCall(kind, inst, req) ==
  [id |-> modal.issued + 1, kind |-> kind, inst |-> inst,
   pc |-> IF kind = "import" THEN "post" ELSE "fetch", req |-> req]

ModalAt(call, pc) ==
  [modal EXCEPT !.calls = (@ \ {call}) \cup {[call EXCEPT !.pc = pc]}]

\* discover() up to its first await: setLoading(true); setError(null); setImportResult(null)
DiscoverStart(m) == [m EXCEPT !.loading = TRUE, !.error = FALSE, !.importResult = NoResult]

\* the modal is rendered: fresh state cells, and the effect calls discover()
ModalOpen ==
  /\ ~modal.open /\ modal.inst < MaxModalOpens /\ modal.issued < MaxModalCalls
  /\ modal' = [DiscoverStart(ModalInit) EXCEPT
                 !.open = TRUE, !.inst = modal.inst + 1,
                 !.calls = modal.calls \cup {ModalCall("discover", modal.inst + 1, <<>>)},
                 !.issued = modal.issued + 1]
  /\ UNCHANGED <<dashboard, board, sidebar, layout, page, store>>

\* onClose
ModalClose ==
  /\ modal.open
  /\ modal' = [modal EXCEPT !.open = FALSE]
  /\ UNCHANGED <<dashboard, board, sidebar, layout, page, store>>

\* the list and its controls are rendered: !loading && agents.length > 0
ListShown == modal.open /\ ~modal.loading /\ modal.agents # <<>>

IdsOf(list) == [i \in 1..Len(list) |-> list[i].id]

\* agents.filter((a) => !a.already_imported).map((a) => a.id)
Available(list) == {list[i].id : i \in {j \in 1..Len(list) : ~list[j].already_imported}}

\* the Refresh button: discover()
Refresh ==
  /\ ListShown /\ modal.issued < MaxModalCalls
  /\ modal' = [DiscoverStart(modal) EXCEPT
                 !.calls = @ \cup {ModalCall("discover", modal.inst, <<>>)},
                 !.issued = @ + 1]
  /\ UNCHANGED <<dashboard, board, sidebar, layout, page, store>>

\* a click on the row of an agent that is not already imported
toggleSelection(id) ==
  /\ ListShown /\ id \in Available(modal.agents)
  /\ modal' = [modal EXCEPT !.selectedIds = IF id \in @ THEN @ \ {id} ELSE @ \cup {id}]
  /\ UNCHANGED <<dashboard, board, sidebar, layout, page, store>>

selectAllAvailable ==
  /\ ListShown /\ Available(modal.agents) # {}
  /\ modal' = [modal EXCEPT !.selectedIds = Available(modal.agents)]
  /\ UNCHANGED <<dashboard, board, sidebar, layout, page, store>>

deselectAll ==
  /\ ListShown /\ Available(modal.agents) # {}
  /\ modal' = [modal EXCEPT !.selectedIds = {}]
  /\ UNCHANGED <<dashboard, board, sidebar, layout, page, store>>

\* the Import button (disabled={selectedIds.size === 0 || importing}): handleImport up to
\* its fetch
handleImport ==
  /\ modal.open /\ modal.selectedIds # {} /\ ~modal.importing
  /\ modal.issued < MaxModalCalls
  /\ modal' = [modal EXCEPT
                 !.importing = TRUE, !.error = FALSE,
                 !.calls = @ \cup {ModalCall("import", modal.inst,
                                             Listed(IdsOf(modal.agents), modal.selectedIds))},
                 !.issued = @ + 1]
  /\ UNCHANGED <<dashboard, board, sidebar, layout, page, store>>

\* the store's addAgent(agent)
addAgent(list, agent) == Append(list, agent)

\* for (const agent of data.imported) addAgent(agent)
RECURSIVE AddAll(_, _)
AddAll(list, imported) ==
  IF imported = <<>> THEN list ELSE AddAll(addAgent(list, Head(imported)), Tail(imported))

\* a failed import that resets the selection like a successful one does
ImportFails_ClearsSelection(call) ==
  IF ModalApplies(call)
  THEN [modal EXCEPT !.calls = @ \ {call}, !.error = TRUE, !.importing = FALSE,
                     !.selectedIds = {}]
  ELSE [modal EXCEPT !.calls = @ \ {call}]

\* handleImport ends with an error: setError(...); finally setImporting(false)
ImportFails(call) ==
  IF ModalApplies(call)
  THEN [modal EXCEPT !.calls = @ \ {call}, !.error = TRUE, !.importing = FALSE]
  ELSE [modal EXCEPT !.calls = @ \ {call}]

\* `await fetch('/api/agents/import')` settles
ImportResponds(call, outcome) ==
  /\ call \in modal.calls /\ call.pc = "post"
  /\ modal' = CASE outcome = "ok" -> ModalAt(call, "postjson")
                [] outcome = "bad" -> ModalAt(call, "posterr")
                [] outcome = "reject" -> ImportFails(call)
  /\ UNCHANGED <<dashboard, board, sidebar, layout, page, store>>

\* `await res.json()` of handleImport settles; imp: the ids the server has imported. With
\* a success status: the addAgent loop, setImportResult, and discover() up to its fetch
ImportParsed(call, outcome, imp) ==
  LET imported == Listed(call.req, imp)
      result == [imported |-> Len(imported), skipped |-> Len(call.req) - Len(imported)] IN
  /\ call \in modal.calls /\ call.pc \in {"postjson", "posterr"}
  /\ imp \subseteq {call.req[i] : i \in 1..Len(call.req)}
  /\ IF call.pc = "postjson" /\ outcome = "parsed"
     THEN /\ store' = [store EXCEPT !.agents = AddAll(@, imported)]
          /\ modal' = IF ModalApplies(call)
                      THEN DiscoverStart([ModalAt(call, "fetch") EXCEPT !.importResult = result])
                      ELSE ModalAt(call, "fetch")
     ELSE /\ imp = {}
          /\ modal' = ImportFails(call)
          /\ UNCHANGED store
  /\ UNCHANGED <<dashboard, board, sidebar, layout, page>>

\* discover() returns, m being the modal after its setters: finally setLoading(false);
\* handleImport, which awaited it, goes on: setSelectedIds(new Set()); finally
\* setImporting(false)
DiscoverEnds(call, m) ==
  LET done == [m EXCEPT !.calls = @ \ {call}, !.loading = FALSE] IN
  IF ~ModalApplies(call) THEN [modal EXCEPT !.calls = @ \ {call}]
  ELSE IF call.kind = "import" THEN [done EXCEPT !.selectedIds = {}, !.importing = FALSE]
  ELSE done

\* `await fetch('/api/agents/discover')` settles
DiscoverResponds(call, outcome) ==
  /\ call \in modal.calls /\ call.pc = "fetch"
  /\ modal' = CASE outcome = "ok" -> ModalAt(call, "json")
                [] outcome = "bad" -> ModalAt(call, "errjson")
                [] outcome = "reject" -> DiscoverEnds(call, [modal EXCEPT !.error = TRUE])
  /\ UNCHANGED <<dashboard, board, sidebar, layout, page, store>>

\* `await res.json()` of discover settles: setAgents(data.agents || []), or setError
DiscoverParsed(call, outcome, list) ==
  /\ call \in modal.calls /\ call.pc \in {"json", "errjson"}
  /\ list \in DiscoverLists
  /\ IF call.pc = "json" /\ outcome = "parsed"
     THEN modal' = DiscoverEnds(call, [modal EXCEPT !.agents = list])
     ELSE /\ list = <<>>
          /\ modal' = DiscoverEnds(call, [modal EXCEPT !.error = TRUE])
  /\ UNCHANGED <<dashboard, board, sidebar, layout, page, store>>

\* ---- AgentActivityDashboard: the values derived from agents and tasks -------------

\* the first loop of blockedAgentIds with its `continue` removed
RECURSIVE TaskLoop_NoContinue(_, _)
TaskLoop_NoContinue(ids, list) ==
  IF list = <<>> THEN ids
  ELSE LET task == Head(list) IN
       TaskLoop_NoContinue(IF task.status \in {"testing", "review"}
                           THEN ids \cup {task.assigned_agent_id} ELSE ids,
                           Tail(list))

\* for (const task of tasks): skip a task without assignee, add the assignee of a task
\* in testing or review
RECURSIVE TaskLoop(_, _)
TaskLoop(ids, list) ==
  IF list = <<>> THEN ids
  ELSE LET task == Head(list) IN
       TaskLoop(IF task.assigned_agent_id = NoAgent THEN ids
                ELSE IF task.status \in {"testing", "review"}
                     THEN ids \cup {task.assigned_agent_id} ELSE ids,
                Tail(list))

\* for (const agent of agents): add an offline agent that tasks.some(...) finds a task
\* not done for
RECURSIVE AgentLoop(_, _, _)
AgentLoop(ids, list, taskList) ==
  IF list = <<>> THEN ids
  ELSE LET agent == Head(list)
           hasAssignedActiveTask ==
             \E i \in 1..Len(taskList) :
               taskList[i].assigned_agent_id = agent.id /\ taskList[i].status # "done" IN
       AgentLoop(IF agent.status = "offline" /\ hasAssignedActiveTask
                 THEN ids \cup {agent.id} ELSE ids,
                 Tail(list), taskList)

\* const blockedAgentIds = useMemo(..., [agents, tasks])
blockedAgentIds(agentList, taskList) == AgentLoop(TaskLoop({}, taskList), agentList, taskList)

\* filteredAgents for filter === 'blocked'
filteredAgents(agentList, blocked) == SelectSeq(agentList, LAMBDA agent : agent.id \in blocked)

\* the render after a setter: the memoised values are recomputed
Render(b) == [b EXCEPT !.blocked = blockedAgentIds(b.agents, b.tasks)]

\* setAgents(await agentsRes.json())
setAgents ==
  /\ board' = Render([board EXCEPT !.agents = board.agentsRes])
  /\ UNCHANGED <<dashboard, page, store, modal, sidebar, layout>>

\* setTasks(await tasksRes.json())
setTasks ==
  /\ board' = Render([board EXCEPT !.tasks = board.tasksRes])
  /\ UNCHANGED <<dashboard, page, store, modal, sidebar, layout>>

\* ---- AgentsSidebar: handleConnectToOpenClaw ---------------------------------------

\* const isConnecting = connectingAgentId === agent.id; disabled={isConnecting}
isConnecting(agent) == sidebar.connectingAgentId = agent

\* finally { setConnectingAgentId(null) } of the call of request r
ConnectEnds(r) == [sidebar EXCEPT !.requests = @ \ {r}, !.connectingAgentId = NoAgent]

\* the call of request r is suspended at its next await
ConnectAt(r, pc) == [sidebar EXCEPT !.requests = (@ \ {r}) \cup {[r EXCEPT !.pc = pc]}]

\* a click on the enabled connect button of master agent `agent`: handleConnectToOpenClaw
\* up to its fetch, a DELETE when the store has a session for the agent and a POST
\* otherwise
handleConnectToOpenClaw(agent, existingSession) ==
  /\ ~isConnecting(agent) /\ sidebar.issued < MaxClicks
  /\ sidebar' = [sidebar EXCEPT
                   !.connectingAgentId = agent,
                   !.requests = @ \cup {[id |-> sidebar.issued + 1, agent |-> agent,
                                         method |-> IF existingSession THEN "DELETE" ELSE "POST",
                                         pc |-> "fetch"]},
                   !.issued = @ + 1]
  /\ UNCHANGED <<dashboard, page, store, modal, board, layout>>

\* `await fetch(/api/agents/id/openclaw)` settles: a DELETE is done, a POST parses the
\* body of the response, a rejection goes to the catch
ConnectResponds(r, outcome) ==
  /\ r \in sidebar.requests /\ r.pc = "fetch"
  /\ sidebar' = IF outcome = "reject" \/ r.method = "DELETE" THEN ConnectEnds(r)
                ELSE ConnectAt(r, "json")
  /\ UNCHANGED <<dashboard, page, store, modal, board, layout>>

\* `await res.json()` of the POST settles: setAgentOpenClawSession, the alert, or the catch
ConnectParsed(r) ==
  /\ r \in sidebar.requests /\ r.pc = "json"
  /\ sidebar' = ConnectEnds(r)
  /\ UNCHANGED <<dashboard, page, store, modal, board, layout>>

\* ---- WorkspacePage: orientation and mobile tab -------------------------------------
\* layout.media is window.matchMedia('(orientation: portrait)').matches; layout.pending
\* says that a render changed isPortrait or mobileTab and the effect keyed on them has
\* not run yet.

\* the page is rendered with fresh cells; its effects run: updateOrientation() and the
\* listeners, and the effect keyed on [isPortrait, mobileTab], which sees isPortrait
\* true; the render after setIsPortrait(media.matches) schedules that effect again when
\* the device is in landscape
LayoutMount ==
  /\ ~layout.alive /\ layout.mounts < MaxLayoutMounts
  /\ layout' = [layout EXCEPT !.alive = TRUE, !.mounts = @ + 1,
                              !.isPortrait = layout.media, !.mobileTab = "queue",
                              !.pending = ~layout.media]
  /\ UNCHANGED <<dashboard, page, store, modal, board, sidebar>>

\* the cleanup removes the listeners; a pending effect of the instance never runs
LayoutUnmount ==
  /\ layout.alive
  /\ layout' = [layout EXCEPT !.alive = FALSE, !.pending = FALSE]
  /\ UNCHANGED <<dashboard, page, store, modal, board, sidebar>>

\* the device is turned
Rotate ==
  /\ layout' = [layout EXCEPT !.media = ~@]
  /\ UNCHANGED <<dashboard, page, store, modal, board, sidebar>>

\* the change or resize listener runs: setIsPortrait(media.matches)
updateOrientation ==
  /\ layout.alive
  /\ layout' = [layout EXCEPT !.isPortrait = layout.media,
                              !.pending = @ \/ layout.isPortrait # layout.media]
  /\ UNCHANGED <<dashboard, page, store, modal, board, sidebar>>

\* a click on a rendered tab button: setMobileTab(tab)
setMobileTab(tab) ==
  /\ layout.alive /\ tab \in TabButtons(layout.isPortrait)
  /\ layout' = [layout EXCEPT !.mobileTab = tab, !.pending = @ \/ layout.mobileTab # tab]
  /\ UNCHANGED <<dashboard, page, store, modal, board, sidebar>>

\* an effect keyed on [isPortrait, mobileTab] that does nothing
OrientationEffect_Noop ==
  /\ layout.alive /\ layout.pending
  /\ layout' = [layout EXCEPT !.pending = FALSE]
  /\ UNCHANGED <<dashboard, page, store, modal, board, sidebar>>

\* the effect keyed on [isPortrait, mobileTab] runs:
\* if (!isPortrait && mobileTab === 'queue') setMobileTab('agents'), whose render
\* schedules the effect once more
OrientationEffect ==
  /\ layout.alive /\ layout.pending
  /\ layout' = IF ~layout.isPortrait /\ layout.mobileTab = "queue"
               THEN [layout EXCEPT !.mobileTab = "agents"]
               ELSE [layout EXCEPT !.pending = FALSE]
  /\ UNCHANGED <<dashboard, page, store, modal, board, sidebar>>

\* ---- specification -------------------------------------------------------------
Next ==
  \/ \E ws \in WorkspaceIds : Mount(ws)
  \/ \E ws \in WorkspaceIds : WorkspaceChange(ws)
  \/ Unmount
  \/ \E s \in Epochs : onopen(s)
  \/ \E s \in Epochs, d \in MessageData : onmessage(s, d)
  \/ \E s \in Epochs : onerror(s)
  \/ \E iv \in intervals : Tick(iv)
  \/ \E call \in calls, out \in Outcomes : PromiseAllSettles(call, out)
  \/ \E call \in calls, o \in {"parsed", "unparsable"} : JsonSettles(call, o)

Spec == Init /\ [][Next]_vars

\* the timer ticks are fair: an interval that stays active keeps firing
FairSpec == Spec /\ WF_vars(\E iv \in intervals : Tick(iv))

\* every fetch and every body parse that was issued settles, with whatever outcome: no
\* call stays suspended at an await forever. A settlement with a success is enabled
\* exactly as long as a call is suspended, so weak fairness of it rules out precisely
\* the behaviours that leave a call suspended forever; the other outcomes stay steps of
\* Next.
SettleSpec ==
  /\ Spec
  /\ WF_vars(\E call \in calls :
               \/ PromiseAllSettles(call, [c \in Collections |-> "ok"])
               \/ JsonSettles(call, "parsed"))

\* the workspace page and the store
PageNext ==
  \/ \E ws \in WorkspaceIds : PageMount(ws)
  \/ \E ws \in WorkspaceIds : SlugChange(ws)
  \/ PageUnmount
  \/ \E call \in page.calls, o \in {"ok", "404", "500", "reject"} : WorkspaceResponds(call, o)
  \/ \E call \in page.calls, o \in {"parsed", "unparsable"} : WorkspaceParsed(call, o)
  \/ \E call \in page.calls, out \in Outcomes : PageLoadSettles(call, out)
  \/ \E call \in page.calls, o \in {"parsed", "unparsable"} :
        \E list \in ListsOf(call.pc) : PageLoadParsed(call, o, list)
  \/ \E call \in page.calls, o \in {"ok", "bad", "reject"} : StatusResponds(call, o)
  \/ \E call \in page.calls, o \in {"connected", "disconnected", "unparsable"} :
        StatusParsed(call, o)
  \/ \E t \in page.timers : AbortFires(t)
  \/ \E t \in page.timers : IntervalFires(t)
  \/ \E call \in page.calls, o \in {"ok", "bad", "reject"} : PollResponds(call, o)
  \/ \E call \in page.calls, o \in {"parsed", "unparsable"} :
        \E list \in ListsOf(Polled(call)) : PollParsed(call, o, list)
  \/ \E call \in page.calls : Overdue(call)

PageSpec == Init /\ [][PageNext]_vars

\* the discover modal and the store
ModalNext ==
  \/ ModalOpen
  \/ ModalClose
  \/ Refresh
  \/ \E id \in GatewayIds : toggleSelection(id)
  \/ selectAllAvailable
  \/ deselectAll
  \/ handleImport
  \/ \E call \in modal.calls, o \in {"ok", "bad", "reject"} : ImportResponds(call, o)
  \/ \E call \in modal.calls, o \in {"parsed", "unparsable"}, imp \in SUBSET GatewayIds :
        ImportParsed(call, o, imp)
  \/ \E call \in modal.calls, o \in {"ok", "bad", "reject"} : DiscoverResponds(call, o)
  \/ \E call \in modal.calls, o \in {"parsed", "unparsable"}, list \in DiscoverLists :
        DiscoverParsed(call, o, list)

ModalSpec == Init /\ [][ModalNext]_vars

\* the dashboard's derived values, for every pair of bodies the server answers with
BoardDrawn ==
  /\ Constructed
  /\ \E a \in AgentBodies, t \in TaskBodies :
       board = [BoardInit EXCEPT !.agentsRes = a, !.tasksRes = t]

BoardNext == setAgents \/ setTasks

BoardSpec == BoardDrawn /\ [][BoardNext]_vars

\* the connect buttons of the sidebar
SidebarNext ==
  \/ \E agent \in MasterIds, existingSession \in BOOLEAN :
        handleConnectToOpenClaw(agent, existingSession)
  \/ \E r \in sidebar.requests, o \in {"ok", "bad", "reject"} : ConnectResponds(r, o)
  \/ \E r \in sidebar.requests : ConnectParsed(r)

SidebarSpec == Init /\ [][SidebarNext]_vars

\* the mobile layout of the workspace page
LayoutNext ==
  \/ LayoutMount
  \/ LayoutUnmount
  \/ Rotate
  \/ updateOrientation
  \/ \E tab \in MobileTabs : setMobileTab(tab)
  \/ OrientationEffect

LayoutSpec == Init /\ [][LayoutNext]_vars

\* ---- vocabulary of the claims -----------------------------------------------------

\* effect run e was torn down: by a workspace change or by the unmount
TornDown(e) == e <= epoch /\ (e < epoch \/ ~alive)
Live(s) == readyState[s] \in {"connecting", "open"}
\* the source of the current effect run was closed by its error handler
Fallback == alive /\ epoch >= 1 /\ readyState[epoch] = "closed"

\* the error handler of the source of the current effect run has run
Errored == alive /\ epoch >= 1 /\ eventSourceRef = NULL

\* the current value of collection c
Stored(c) == IF c = "agents" THEN agents ELSE IF c = "tasks" THEN tasks ELSE events

\* call is no longer in flight after the step
Finished(call) == \A next \in calls' : next.rid # call.rid

\* a state setter stored a fetched list: the cell changed, and not by a fresh mount
Written(old, new) == new # old /\ new # Empty

\* the call is left suspended at the json() of response c, the later ok responses pending
StoresNext(call, c) ==
  \E next \in calls' : next.rid = call.rid /\ next.pc = c /\ c \in next.ok

\* ---- C1 ---------------------------------------------------------------------------
\* C1: a list fetched under an effect run that was torn down is never stored: every
\* write to agents, tasks or events is made by a call of the current effect run of a
\* mounted dashboard.
C1_NoWriteAfterTeardown ==
  [][/\ Written(agents, agents') => (alive' /\ agents'.scope = epoch')
     /\ Written(tasks, tasks') => (alive' /\ tasks'.scope = epoch')
     /\ Written(events, events') => (alive' /\ events'.scope = epoch')]_vars

\* ---- C2 ---------------------------------------------------------------------------
\* C2: when the agents fetch of a refresh fails (rejection, non-success status or a
\* body that cannot be parsed) and its tasks and events fetches succeed, agents is
\* left unchanged and the refresh goes on to store its tasks and then its events.
C2_AgentsFailure(call) ==
  \/ \E f \in {"reject", "bad"} :
       PromiseAllSettles(call, [c \in Collections |-> IF c = "agents" THEN f ELSE "ok"])
  \/ call.pc = "agents" /\ call.ok = Collections /\ JsonSettles(call, "unparsable")

C2_Step(call) ==
  /\ C2_AgentsFailure(call) => (agents' = agents /\ StoresNext(call, "tasks"))
  /\ (call.pc = "tasks" /\ call.ok = {"tasks", "events"} /\ JsonSettles(call, "parsed")
        /\ Applies(call.scope))
       => (tasks' = Payload(call, "tasks") /\ StoresNext(call, "events"))
  /\ (call.pc = "events" /\ JsonSettles(call, "parsed") /\ Applies(call.scope))
       => events' = Payload(call, "events")

C2_FetchFailuresAreIndependent ==
  [][\A call \in calls : call.kind = "refresh" => C2_Step(call)]_vars

\* ---- C4 ---------------------------------------------------------------------------
\* C4: when nothing is in flight, each collection holds the result of the fetch of it
\* that completed last: if the three fetches that completed last all succeeded, in
\* one call, the three collections hold the lists of that call.
C4_StoreHoldsLastCompleted ==
  (alive /\ calls = {} /\ newest # 0) =>
    (agents.rid = newest /\ tasks.rid = newest /\ events.rid = newest)

\* ---- C5 ---------------------------------------------------------------------------
\* C5: in every state of a mounted dashboard the three collections were written by
\* the same call (or are all still the initial empty lists).
C5_OneSnapshot ==
  alive => (agents.rid = tasks.rid /\ tasks.rid = events.rid)

\* ---- C3 ---------------------------------------------------------------------------
\* C3: once an effect run is torn down, no interval it created is active and the
\* EventSource it created is neither connecting nor open, in every later state.
C3_TeardownLeavesNothing ==
  \A e \in Epochs : TornDown(e) =>
    /\ ~Live(e)
    /\ \A iv \in intervals : iv.scope # e

\* an unmounted dashboard whose two effect runs both saw their stream fail
C3_Witness ==
  /\ ~alive /\ epoch = 2
  /\ readyState[1] = "closed" /\ readyState[2] = "closed"
  /\ eventSourceRef = NULL /\ sseConnected = FALSE /\ loading = FALSE

\* ---- C6 ---------------------------------------------------------------------------
\* C6: after the error handler of a source ran, that source is closed, sseConnected
\* is false and exactly one interval is active (the one that ran before, if any); and
\* with fair ticks a refresh is started again and again until the teardown: from every
\* fallback state another call is started (in fallback only a tick starts one) or the
\* fallback ends, as long as the model's budget of calls allows one more.
C6_ErrorStep ==
  \A s \in Epochs : onerror(s) =>
    /\ readyState'[s] = "closed" /\ ~sseConnected'
    /\ Cardinality(intervals') = 1 /\ pollingIntervalRef' \in intervals'
    /\ intervals # {} => intervals' = intervals

C6_ErrorFallsBackToPolling ==
  /\ [][C6_ErrorStep]_vars
  /\ \A n \in 0..(MaxCalls - 1) :
       (Fallback /\ started = n) ~> (~Fallback \/ started > n)

\* the stream failed after it had opened, and the interval started by the error
\* handler has already triggered a refresh that is in flight
C6_Witness ==
  /\ Fallback /\ epoch = 1 /\ ~sseConnected
  /\ intervals = {[scope |-> 1, tag |-> "onerror"]}
  /\ \E call \in calls : call.kind = "refresh" /\ call.scope = 1

\* ---- C7 ---------------------------------------------------------------------------
\* C7: right after the open handler ran, sseConnected is true and no interval is
\* active.
C7_OpenStopsPolling ==
  [][\A s \in Epochs : onopen(s) => sseConnected' /\ intervals' = {} /\ pollingIntervalRef' = NoInterval]_vars

\* the stream of the first effect run is open and the interval of the mount is gone
C7_Witness ==
  /\ alive /\ epoch = 1 /\ readyState[1] = "open" /\ sseConnected
  /\ intervals = {} /\ pollingIntervalRef = NoInterval

\* ---- C8 ---------------------------------------------------------------------------
\* C8: no state has an open stream and an active interval; an interval is active only
\* while the current stream is connecting or closed.
C8_PollingOnlyWhileNotOpen ==
  /\ (\E s \in Epochs : readyState[s] = "open") => intervals = {}
  /\ intervals # {} => alive /\ readyState[epoch] \in {"connecting", "closed"}

\* the second effect run polls while its stream is connecting, after the first one
\* had an open stream
C8_Witness ==
  /\ alive /\ epoch = 2 /\ instStart = 1 /\ sseConnected
  /\ readyState[2] = "connecting" /\ intervals = {[scope |-> 2, tag |-> "effect"]}

\* ---- C9 ---------------------------------------------------------------------------
\* C9: while mounted, sseConnected is true only if the current EventSource is open.
C9_HealthFlagMeansOpen ==
  (alive /\ sseConnected) => (eventSourceRef # NULL /\ readyState[eventSourceRef] = "open")

\* ---- C10 --------------------------------------------------------------------------
\* C10: at most one EventSource is connecting or open, and when a new one is created
\* every other one is closed.
C10_AtMostOneLiveSource ==
  /\ Cardinality({s \in Epochs : Live(s)}) <= 1
  /\ \A s \in Epochs : Live(s) => (alive /\ s = epoch /\ eventSourceRef = s)

\* a second connection exists, created after the first one was open and then closed
C10_Witness ==
  /\ alive /\ epoch = 2 /\ readyState[1] = "closed" /\ readyState[2] = "open"
  /\ eventSourceRef = 2

\* ---- C11 --------------------------------------------------------------------------
\* C11: once the source of the current effect run has reported an error, no source is
\* connecting or open and sseConnected is false, and this lasts until the effect runs
\* again or the dashboard unmounts: the closed source never reopens and no other source
\* is created; every call started meanwhile is a refresh started by the one interval.
C11_Errored ==
  Errored =>
    /\ ~sseConnected
    /\ \A s \in Epochs : ~Live(s)
    /\ Cardinality(intervals) = 1

C11_Stays ==
  (Errored /\ alive' /\ epoch' = epoch) =>
    /\ readyState' = readyState /\ ~sseConnected' /\ eventSourceRef' = NULL
    /\ started' # started =>
         \E iv \in intervals : calls' = calls \cup {NewCall("refresh", iv.scope)}

C11_NoAutoRetry == []C11_Errored /\ [][C11_Stays]_vars

\* the stream failed after it had opened, and every refresh since was started by the
\* interval of the error handler and has finished
C11_Witness ==
  /\ Fallback /\ epoch = 1 /\ started = MaxCalls /\ calls = {}
  /\ intervals = {[scope |-> 1, tag |-> "onerror"]}

\* ---- C12 --------------------------------------------------------------------------
\* C12: at most one interval is active and pollingIntervalRef points at it; in every
\* reachable state a second startPolling in a row changes nothing after the first and
\* leaves one interval (the first), and a second stopPolling in a row changes nothing
\* after the first and leaves none.
C12_StartTwice ==
  \A e \in Epochs, t1, t2 \in {"effect", "onerror"} :
    LET once == startPolling(pollingIntervalRef, intervals, [scope |-> e, tag |-> t1])
        twice == startPolling(once.ref, once.active, [scope |-> e, tag |-> t2])
    IN  /\ twice = once
        /\ Cardinality(once.active) = 1
        /\ once.active = {once.ref}

C12_StopTwice ==
  LET once == stopPolling(pollingIntervalRef, intervals)
      twice == stopPolling(once.ref, once.active)
  IN  twice = once /\ once.active = {} /\ once.ref = NoInterval

C12_PollingIdempotent ==
  /\ Cardinality(intervals) <= 1
  /\ intervals = IF pollingIntervalRef = NoInterval THEN {} ELSE {pollingIntervalRef}
  /\ C12_StartTwice
  /\ C12_StopTwice

\* the stream failed while connecting: startPolling ran twice in a row (effect, error
\* handler) and the interval of the effect is still the only one
C12_Witness ==
  /\ Fallback /\ epoch = 1
  /\ intervals = {[scope |-> 1, tag |-> "effect"]}
  /\ pollingIntervalRef = [scope |-> 1, tag |-> "effect"]

\* ---- C13 --------------------------------------------------------------------------
\* C13: every message whose data does not start with ':' starts exactly one refresh,
\* whatever the data is: one more call is in flight than before, it awaits its three
\* fetches (agents, tasks, events), and the calls that were in flight stay in flight.
C13_Step ==
  \A s \in Epochs, d \in MessageData :
    (onmessage(s, d) /\ ~StartsWithColon(d)) =>
      /\ started' = started + 1
      /\ Cardinality(calls') = Cardinality(calls) + 1
      /\ calls \subseteq calls'
      /\ \A call \in calls' \ calls :
           call.kind = "refresh" /\ call.pc = "all" /\ call.scope = s /\ call.rid = started'
      /\ UNCHANGED <<agents, tasks, events>>

C14_Step ==
  \A s \in Epochs, d \in MessageData :
    (onmessage(s, d) /\ StartsWithColon(d)) => UNCHANGED vars

C14_KeepAliveIgnored == [][C14_Step]_vars

\* the stream is open and idle after the initial load: only keep-alives arrive
C14_Witness ==
  /\ alive /\ epoch = 1 /\ readyState[1] = "open" /\ sseConnected
  /\ started = 1 /\ calls = {} /\ ~loading /\ agents.rid = 1

\* ---- C15 --------------------------------------------------------------------------
\* C15: whatever the outcomes of the three fetches of a loadData or refresh, the call
\* goes on or ends in its catch, and it never touches a collection whose fetch failed:
\* for every outcome of the Promise.all only the responses with a success
\* status are left to be parsed, and none when a fetch rejected; the settlement of the
\* Promise.all and an unparsable body write nothing; and a collection changes only to
\* the parsed body of a successful response for it (or to the initial list of a fresh
\* instance), never to empty.
C15_Outcomes ==
  \A call \in calls :
    call.pc = "all" =>
      \A out \in Outcomes :
        LET left == {next \in AllSettled(call, out) : next.rid = call.rid} IN
        /\ ((\E c \in Collections : out[c] = "reject") \/ OkOf(out) = {}) => left = {}
        /\ \A next \in left : next.ok = OkOf(out) /\ next.pc \in OkOf(out)

C15_Step ==
  /\ \A call \in calls :
       call \notin calls' =>
         /\ call.pc = "all" => UNCHANGED <<agents, tasks, events>>
         /\ JsonSettles(call, "unparsable") =>
              (UNCHANGED <<agents, tasks, events>> /\ Finished(call))
  /\ \A c \in Collections :
       Stored(c)' # Stored(c) =>
         \/ ~alive /\ alive' /\ Stored(c)' = Empty
         \/ \E call \in calls :
              /\ call.pc = c /\ c \in call.ok /\ JsonSettles(call, "parsed")
              /\ Stored(c)' = Payload(call, c) /\ Stored(c)' # Empty

C15_FailedFetchKeepsValue == []C15_Outcomes /\ [][C15_Step]_vars

\* the initial load ended with a failed agents fetch: agents still is the initial
\* list, tasks and events hold the lists of the load
C15_Witness ==
  /\ alive /\ epoch = 1 /\ started = 1 /\ calls = {} /\ ~loading
  /\ agents = Empty /\ tasks.rid = 1 /\ events.rid = 1

\* ---- C16 --------------------------------------------------------------------------
\* C16: a workspace change closes the EventSource and clears the interval of the old
\* effect run and starts a load, an EventSource and an interval of the new one; and
\* every call started from then on (load, message, tick) fetches agents and tasks
\* with the workspace id of the current effect run, as the only interval and the only
\* open stream are those of the current effect run.
C16_ChangeStep ==
  \A ws \in WorkspaceIds :
    WorkspaceChange(ws) =>
      /\ epoch' = epoch + 1 /\ workspaceId' = ws /\ ws # workspaceId
      /\ readyState'[epoch] = "closed"
      /\ readyState'[epoch'] = "connecting" /\ eventSourceRef' = epoch'
      /\ intervals' = {[scope |-> epoch', tag |-> "effect"]}
      /\ pollingIntervalRef' \in intervals'
      /\ \E call \in calls' :
           call.rid = started' /\ call.kind = "load" /\ call.scope = epoch' /\ call.pc = "all"

C16_StartStep ==
  started' # started =>
    \A call \in calls' :
      call.rid = started' =>
        /\ call.scope = epoch'
        /\ \A c \in {"agents", "tasks"} : FetchScope(c, call.scope)' = workspaceId'

\* what can start a call (an active interval, an open stream) belongs to the current run
C16_Triggers ==
  /\ \A iv \in intervals : iv.scope = epoch /\ closureWs[iv.scope] = workspaceId
  /\ \A s \in Epochs : readyState[s] = "open" => s = epoch

C16_ChangeIsFreshMount == []C16_Triggers /\ [][C16_ChangeStep /\ C16_StartStep]_vars

\* after a change from A to B: the stream of A is closed, the one of B is connecting,
\* the interval of B is the only one and the load of B is in flight
C16_Witness ==
  /\ alive /\ epoch = 2 /\ instStart = 1 /\ closureWs[1] # closureWs[2]
  /\ readyState[1] = "closed" /\ readyState[2] = "connecting"
  /\ intervals = {[scope |-> 2, tag |-> "effect"]}
  /\ \E call \in calls : call.kind = "load" /\ call.scope = 2 /\ call.rid = 2

\* ---- C20 --------------------------------------------------------------------------
\* C20: once the effect run that started a loadData is torn down (its `mounted` flag
\* is false), no later step of that loadData writes agents, tasks, events or loading.
C20_LoadStep(call) ==
  \/ \E out \in Outcomes : PromiseAllSettles(call, out)
  \/ \E o \in {"parsed", "unparsable"} : JsonSettles(call, o)

C20_MountedGuardsLoad ==
  [][\A call \in calls :
       (call.kind = "load" /\ ~mounted[call.scope] /\ C20_LoadStep(call))
         => UNCHANGED <<agents, tasks, events, loading>>]_vars

\* ---- C18 --------------------------------------------------------------------------
\* C18: no status check of the workspace page (checkOpenClaw, connectionCheck) is
\* left waiting for the endpoint's answer once the fixed duration has passed; a status
\* check that ends by a timeout or by a rejected request leaves isOnline false.
C18_Bounded ==
  \A call \in page.calls : call.kind \in StatusKinds => ~call.overdue

C18_FailureStep ==
  /\ \A call \in page.calls : StatusResponds(call, "reject") => ~store'.isOnline
  /\ \A t \in page.timers :
       (AbortFires(t) /\ page'.calls # page.calls) => ~store'.isOnline

C18_StatusChecksTimeOut == []C18_Bounded /\ [][C18_FailureStep]_vars

\* ---- C19 --------------------------------------------------------------------------
\* C19: every pending timer of the workspace page belongs to the data effect run that
\* is live: after the teardown of a run none of its timers (three intervals, abort
\* timeout of checkOpenClaw) is pending.
C19_NoTimerAfterTeardown ==
  \A t \in page.timers : page.live /\ t.run = page.run

\* ---- C17 --------------------------------------------------------------------------
\* C17: a collection of the store changes only by being replaced with the payload of a
\* fetch that completes in that step (the parsed list of a load or a poll, the imported
\* agents of an import): its new value is that payload, whatever it held before.
C17_StoreOf(c) == IF c = "agents" THEN store.agents ELSE IF c = "tasks" THEN store.tasks ELSE store.events

C17_FetchedNow(c, new) ==
  \/ \E call \in page.calls : \E list \in ListsOf(c) :
       /\ new = list
       /\ \/ call.pc = c /\ PageLoadParsed(call, "parsed", list)
          \/ Polled(call) = c /\ PollParsed(call, "parsed", list)
  \/ \E call \in modal.calls, imp \in SUBSET GatewayIds :
       /\ c = "agents" /\ new = Listed(call.req, imp)
       /\ ImportParsed(call, "parsed", imp)

C21_InReview ==
  {board.tasks[i].assigned_agent_id :
     i \in {j \in 1..Len(board.tasks) :
              /\ board.tasks[j].assigned_agent_id # NoAgent
              /\ board.tasks[j].status \in {"testing", "review"}}}

C21_OfflineAssigned ==
  {board.agents[i].id :
     i \in {j \in 1..Len(board.agents) :
              /\ board.agents[j].status = "offline"
              /\ \E k \in 1..Len(board.tasks) :
                   /\ board.tasks[k].assigned_agent_id = board.agents[j].id
                   /\ board.tasks[k].status # "done"}}

C21_BlockedSet ==
  /\ board.blocked = C21_InReview \cup C21_OfflineAssigned
  /\ NoAgent \notin board.blocked

\* both loops have added an agent, and a task in review has no assignee
C21_Witness ==
  /\ Len(board.agents) = 2 /\ Len(board.tasks) = 2
  /\ C21_InReview = {} /\ C21_OfflineAssigned # {}
  /\ \E i \in 1..2 : board.tasks[i].assigned_agent_id = NoAgent /\ board.tasks[i].status = "review"
  /\ board.blocked = {"a1"}

\* ---- C22 --------------------------------------------------------------------------
\* C22: in every reachable state in which the dashboard is mounted, the EventSource of
\* the current effect run is connecting or open, or an interval of the current effect
\* run is active: a message or a tick can always start a refresh.
C22_LiveUpdateSource ==
  alive => /\ epoch >= 1
           /\ Live(epoch) \/ \E iv \in intervals : iv.scope = epoch

\* the stream of the second effect run was open and failed: polling is the only source
C22_Witness ==
  /\ alive /\ epoch = 2 /\ readyState[2] = "closed" /\ ~sseConnected
  /\ intervals = {[scope |-> 2, tag |-> "onerror"]}

\* ---- C23 --------------------------------------------------------------------------
\* C23: when every issued fetch and body parse settles, a mounted dashboard never shows
\* the loading screen forever: from every state a state is reached in which loading is
\* false (or the dashboard is unmounted), also when the workspace changed while the
\* first load was in flight; and loading goes from false to true only with a fresh
\* instance. (`[]<>~P` says the same as `P ~> ~P`.)
C23_StaysFalse == (~loading /\ loading') => (~alive /\ alive')

C23_LoadingTerminates ==
  /\ []<>(~loading \/ ~alive)
  /\ [][C23_StaysFalse]_vars

\* the workspace changed while the first load was in flight, and the load of the second
\* effect run has ended the loading screen
C23_Witness ==
  /\ alive /\ epoch = 2 /\ instStart = 1 /\ ~loading
  /\ \E call \in calls : call.kind = "load" /\ call.scope = 1

\* ---- C24 --------------------------------------------------------------------------
\* C24: whenever the workspace request of the mounted page and the data loads it
\* started have settled, with whatever outcome, the page renders the not-found view
\* or the loaded workspace (workspace set and isLoading false), not 'Loading ...'.
C24_Settled ==
  /\ page.alive
  /\ \A call \in page.calls :
       call.inst = page.inst => call.kind \notin {"loadWorkspace", "loadData"}

C24_LeavesLoading ==
  C24_Settled => \/ page.notFound
                 \/ page.workspace # NoWorkspace /\ ~store.isLoading

\* ---- C25 --------------------------------------------------------------------------
\* C25: every task poll that parsed its body leaves the store's tasks with the same
\* multiset of (id, updated_at) pairs as the polled list, and leaves the store
\* untouched when the polled list already had that multiset; for every polled list and
\* every stored list, lists with repeated ids included.
C25_Count(list, t) == Cardinality({i \in 1..Len(list) : list[i] = t})

C25_SamePairs(l1, l2) ==
  \A t \in {l1[i] : i \in 1..Len(l1)} \cup {l2[i] : i \in 1..Len(l2)} :
    C25_Count(l1, t) = C25_Count(l2, t)

C25_PollStep ==
  \A call \in page.calls :
    (call.kind = "taskPoll" /\ call.pc = "json") =>
      \A list \in TaskLists :
        PollParsed(call, "parsed", list) =>
          /\ C25_SamePairs(store'.tasks, list)
          /\ C25_SamePairs(list, store.tasks) => store' = store

C25_PollWritesOnChange == [][C25_PollStep]_vars

\* ---- C26 --------------------------------------------------------------------------
\* C26: in every reachable state of the open modal, every selected id is the id of an
\* agent of the discovered list that is not already imported, so that the count in the
\* footer is the number of agents handleImport sends.
C26_Sent == Len(Listed(IdsOf(modal.agents), modal.selectedIds))

C26_SelectionImportable ==
  modal.open =>
    /\ modal.selectedIds \subseteq Available(modal.agents)
    /\ Cardinality(modal.selectedIds) = C26_Sent

\* ---- C27 --------------------------------------------------------------------------
\* C27: a step in which the import request of the open modal fails (the request is
\* rejected, or the body of a response is parsed or found unparsable after a
\* non-success status, or the body of a success is unparsable) adds no agent to the
\* store, keeps selectedIds and the discovered list, leaves importResult unset, sets
\* the error and resets importing; every step that ends a handleImport of the open
\* modal resets importing, and importing is true only while one is in flight; and a
\* step starts an import request only with a selection that is not empty.
C27_Failure(call) ==
  \/ ImportResponds(call, "reject")
  \/ call.pc = "posterr" /\ \E o \in {"parsed", "unparsable"} : ImportParsed(call, o, {})
  \/ call.pc = "postjson" /\ ImportParsed(call, "unparsable", {})

C27_Imports(m) == {call \in m.calls : call.kind = "import" /\ call.inst = m.inst}

C27_Step ==
  /\ \A call \in C27_Imports(modal) :
       (modal.open /\ call \notin modal'.calls /\ C27_Failure(call)) =>
         /\ store' = store
         /\ modal'.selectedIds = modal.selectedIds /\ modal'.agents = modal.agents
         /\ modal'.importResult = NoResult
         /\ modal'.error /\ ~modal'.importing
         /\ C27_Imports(modal') = {}
  /\ (modal.open /\ modal'.open /\ C27_Imports(modal) # {} /\ C27_Imports(modal') = {}) =>
       ~modal'.importing
  /\ (\E new \in C27_Imports(modal') : \A call \in modal.calls : call.id # new.id) =>
       /\ modal.selectedIds # {}
       /\ modal'.issued = modal.issued + 1

C27_Importing == (modal.open /\ modal.importing) => C27_Imports(modal) # {}

C27_FailedImportOnlySetsError == []C27_Importing /\ [][C27_Step]_vars

\* an import has failed while a refresh of the list was in flight: the error is set
\* and the selection kept
C27_Witness ==
  /\ modal.open /\ modal.loading /\ modal.error /\ ~modal.importing
  /\ modal.selectedIds # {} /\ modal.agents # <<>>
  /\ C27_Imports(modal) = {}

\* ---- C28 --------------------------------------------------------------------------
\* C28: for every interleaving of clicks on the connect buttons of several master
\* agents and of settlements, the button of an agent is disabled (connectingAgentId is
\* its id) while a request for the agent is pending, and no two requests for the same
\* agent are pending.
C28_DisabledWhilePending ==
  /\ \A r \in sidebar.requests : isConnecting(r.agent)
  /\ \A r1, r2 \in sidebar.requests : r1.agent = r2.agent => r1 = r2

\* ---- C29 --------------------------------------------------------------------------
\* C29: in every reachable state of the dashboard every blocked id is the id of an
\* agent of the agents collection, the 'Blocked' metric is at most the 'Agents' metric,
\* and it is the number of agents listed under the 'blocked' filter.
C29_BlockedAreAgents ==
  /\ board.blocked \subseteq {board.agents[i].id : i \in 1..Len(board.agents)}
  /\ Cardinality(board.blocked) <= Len(board.agents)
  /\ Cardinality(board.blocked) = Len(filteredAgents(board.agents, board.blocked))

\* ---- C30 --------------------------------------------------------------------------
\* C30: whenever the effect keyed on isPortrait and mobileTab has run after the last
\* render of the mounted page, isPortrait false implies that mobileTab is agents, feed
\* or settings, for every sequence of turns of the device and tab clicks; a run of
\* the effect in landscape moves the tab from queue to agents and leaves every other
\* tab, and the switch of isPortrait itself leaves the tab and schedules the effect.
C30_Rests == layout.alive /\ ~layout.pending

C30_NoQueue ==
  (C30_Rests /\ ~layout.isPortrait) => layout.mobileTab \in {"agents", "feed", "settings"}

C30_Step ==
  /\ OrientationEffect =>
       layout'.mobileTab = IF ~layout.isPortrait /\ layout.mobileTab = "queue"
                           THEN "agents" ELSE layout.mobileTab
  /\ (layout.alive /\ layout'.alive /\ layout.isPortrait /\ ~layout'.isPortrait) =>
       /\ layout'.mobileTab = layout.mobileTab
       /\ layout'.pending

C30_NoQueueInLandscape == []C30_NoQueue /\ [][C30_Step]_vars

\* the page was in landscape on the queue tab, and the effect has moved the tab to
\* agents
C30_Witness ==
  /\ C30_Rests /\ layout.mounts = 1 /\ ~layout.media /\ ~layout.isPortrait
  /\ layout.mobileTab = "agents"

====
